---- MODULE Spec2Model ----
(***************************************************************************)
(* A model of songhash.py: the reader/hasher pipeline (hash_songs), the    *)
(* Database (is_newer_than_recorded, matches_recorded_hash, update), the   *)
(* database file format (read_database, output), diff_databases and scan.  *)
(*                                                                         *)
(* Text is a sequence of one-character strings, so that str.strip,         *)
(* str.split, int() and the printing of a record are computed character by *)
(* character.  A Path is held by its normalised string form (what str(p)   *)
(* gives); Path(s) is PathFromStr(s).                                      *)
(***************************************************************************)
EXTENDS Integers, Sequences, FiniteSets, TLC

(***************************************************************************)
(* Bounds of the model.                                                    *)
(***************************************************************************)
\* modification times of files are drawn from 1..MaxTime
MaxTime == 2
\* the pipeline alone is run on inputs of 0..MaxPipeLen files
MaxPipeLen == 10
\* queue.Queue(maxsize=8)
QueueMax == 8

(***************************************************************************)
(* Characters and text.                                                    *)
(***************************************************************************)
TAB == "\t"
NL == "\n"
SLASH == "/"

\* the characters the model uses, in code point order
AsciiOrder ==
    << "\t", "\n", " ", "-", ".", "/",
       "0", "1", "2", "3", "4", "5", "6", "7", "8", "9",
       "a", "b", "c", "d", "m", "n", "p", "t", "x" >>

Ord(c) == CHOOSE i \in 1..Len(AsciiOrder) : AsciiOrder[i] = c

Digits == << "0", "1", "2", "3", "4", "5", "6", "7", "8", "9" >>

IsDigit(c) == \E i \in 1..10 : Digits[i] = c

DigitVal(c) == (CHOOSE i \in 1..10 : Digits[i] = c) - 1

\* the characters str.strip() removes
IsSpace(c) == c \in {" ", "\t", "\n"}

SetMin(S) == CHOOSE x \in S : \A y \in S : x <= y

SetMax(S) == CHOOSE x \in S : \A y \in S : y <= x

\* str.strip(): leading and trailing whitespace removed
Strip(s) ==
    LET keep == {i \in 1..Len(s) : ~IsSpace(s[i])}
    IN  IF keep = {} THEN <<>> ELSE SubSeq(s, SetMin(keep), SetMax(keep))

\* str.split(sep): the pieces between separators, empty pieces kept
RECURSIVE SplitFrom(_, _, _)
SplitFrom(s, sep, acc) ==
    IF s = <<>> THEN <<acc>>
    ELSE IF Head(s) = sep THEN <<acc>> \o SplitFrom(Tail(s), sep, <<>>)
    ELSE SplitFrom(Tail(s), sep, Append(acc, Head(s)))

Split(s, sep) == SplitFrom(s, sep, <<>>)

\* f.readlines(): the lines of a text, each with its newline; a last line
\* without newline is a line, an empty rest is not
RECURSIVE ReadLinesFrom(_, _)
ReadLinesFrom(s, acc) ==
    IF s = <<>> THEN (IF acc = <<>> THEN <<>> ELSE <<acc>>)
    ELSE IF Head(s) = NL THEN <<Append(acc, NL)>> \o ReadLinesFrom(Tail(s), <<>>)
    ELSE ReadLinesFrom(Tail(s), Append(acc, Head(s)))

ReadLines(s) == ReadLinesFrom(s, <<>>)

\* str(n) of an integer
RECURSIVE NatToStr(_)
NatToStr(n) ==
    IF n < 10 THEN <<Digits[n + 1]>>
    ELSE Append(NatToStr(n \div 10), Digits[(n % 10) + 1])

IntToStr(n) == IF n < 0 THEN <<"-">> \o NatToStr(-n) ELSE NatToStr(n)

\* whether int(s) accepts s: an optional sign and decimal digits
IsIntLiteral(s) ==
    LET body == IF s # <<>> /\ Head(s) = "-" THEN Tail(s) ELSE s
    IN  body # <<>> /\ \A i \in 1..Len(body) : IsDigit(body[i])

RECURSIVE DigitsToNat(_)
DigitsToNat(s) ==
    IF s = <<>> THEN 0
    ELSE 10 * DigitsToNat(SubSeq(s, 1, Len(s) - 1)) + DigitVal(s[Len(s)])

\* int(s)
StrToInt(s) == IF Head(s) = "-" THEN 0 - DigitsToNat(Tail(s)) ELSE DigitsToNat(s)

\* code point order of two strings: s < t
RECURSIVE StrLess(_, _)
StrLess(s, t) ==
    IF t = <<>> THEN FALSE
    ELSE IF s = <<>> THEN TRUE
    ELSE IF Head(s) = Head(t) THEN StrLess(Tail(s), Tail(t))
    ELSE Ord(Head(s)) < Ord(Head(t))

RECURSIVE Concat(_)
Concat(ss) == IF ss = <<>> THEN <<>> ELSE Head(ss) \o Concat(Tail(ss))

(***************************************************************************)
(* Paths.                                                                  *)
(***************************************************************************)
IsAbsolute(p) == p # <<>> /\ Head(p) = SLASH

\* the parts of a path: the root "/" of an absolute path, then its
\* components; empty and "." components are dropped
PathParts(s) ==
    LET pieces == Split(s, SLASH)
        kept == SelectSeq(pieces, LAMBDA c : c # <<>> /\ c # <<".">>)
    IN  IF IsAbsolute(s) THEN <<(<<SLASH>>)>> \o kept ELSE kept

RECURSIVE JoinParts(_)
JoinParts(parts) ==
    IF parts = <<>> THEN <<>>
    ELSE IF Len(parts) = 1 THEN Head(parts)
    ELSE IF Head(parts) = <<SLASH>> THEN <<SLASH>> \o JoinParts(Tail(parts))
    ELSE Head(parts) \o <<SLASH>> \o JoinParts(Tail(parts))

\* Path(s): the normalised form of s (Path("") is ".")
PathFromStr(s) ==
    LET parts == PathParts(s)
    IN  IF parts = <<>> THEN <<".">> ELSE JoinParts(parts)

IsPrefix(s, t) == Len(s) <= Len(t) /\ SubSeq(t, 1, Len(s)) = s

\* whether p.relative_to(base) succeeds: the parts of base begin those of p
IsRelativeTo(p, base) == IsPrefix(PathParts(base), PathParts(p))

\* p.relative_to(base)
RelativeTo(p, base) ==
    LET rest == SubSeq(PathParts(p), Len(PathParts(base)) + 1, Len(PathParts(p)))
    IN  IF rest = <<>> THEN <<".">> ELSE JoinParts(rest)

\* the order of PurePath: the parts compared one by one, s < t
RECURSIVE PartsLess(_, _)
PartsLess(ps, pt) ==
    IF pt = <<>> THEN FALSE
    ELSE IF ps = <<>> THEN TRUE
    ELSE IF Head(ps) = Head(pt) THEN PartsLess(Tail(ps), Tail(pt))
    ELSE StrLess(Head(ps), Head(pt))

PathLess(p, q) == PartsLess(PathParts(p), PathParts(q))

\* Path.suffix: the last component from its last dot on
Suffix(p) ==
    LET parts == PathParts(p)
        name == IF parts = <<>> THEN <<>> ELSE parts[Len(parts)]
        dots == {i \in 2..Len(name) : name[i] = "."}
    IN  IF dots = {} \/ name[Len(name)] = "." THEN <<>>
        ELSE SubSeq(name, SetMax(dots), Len(name))

(***************************************************************************)
(* Hasher.  A file holds the byte "X" or the byte "Y"; the digest of each  *)
(* is cut to the first two of its 64 hex digits, which differ.             *)
(***************************************************************************)
Contents == { "X", "Y" }

\* hashlib.sha256(contents).hexdigest()
Sha256Hex(contents) == IF contents = "X" THEN << "4", "b" >> ELSE << "1", "8" >>

(***************************************************************************)
(* Records of the program.                                                 *)
(***************************************************************************)
\* SongFileData(path, timestamp_ns)
SongFileData(path, timestamp_ns) == [path |-> path, timestamp_ns |-> timestamp_ns]

\* Song(path, contents, number, timestamp_ns)
Song(path, contents, number, timestamp_ns) ==
    [path |-> path, contents |-> contents, number |-> number,
     timestamp_ns |-> timestamp_ns]

\* SongHash(path, sha256, timestamp_ns)
SongHash(path, sha256, timestamp_ns) ==
    [path |-> path, sha256 |-> sha256, timestamp_ns |-> timestamp_ns]

\* SongHash.from_song
SongHashFromSong(song) ==
    SongHash(song.path, Sha256Hex(song.contents), song.timestamp_ns)

\* an order of SongHash with the digest as its first field
SongHashLessByDigest(a, b) ==
    IF a.sha256 # b.sha256 THEN StrLess(a.sha256, b.sha256)
    ELSE IF a.path # b.path THEN PathLess(a.path, b.path)
    ELSE a.timestamp_ns < b.timestamp_ns

\* the order dataclass(order=True) gives SongHash: by (path, sha256, timestamp_ns)
SongHashLess(a, b) ==
    IF a.path # b.path THEN PathLess(a.path, b.path)
    ELSE IF a.sha256 # b.sha256 THEN StrLess(a.sha256, b.sha256)
    ELSE a.timestamp_ns < b.timestamp_ns

(***************************************************************************)
(* A dict is the sequence of its items [k, v] in insertion order, no key   *)
(* twice.                                                                  *)
(***************************************************************************)
DictHas(d, k) == \E i \in 1..Len(d) : d[i].k = k

DictGet(d, k) == d[CHOOSE i \in 1..Len(d) : d[i].k = k].v

\* d[k] = v: the value of a key already there is replaced in place
DictPut(d, k, v) ==
    IF DictHas(d, k)
    THEN [i \in 1..Len(d) |-> IF d[i].k = k THEN [k |-> k, v |-> v] ELSE d[i]]
    ELSE Append(d, [k |-> k, v |-> v])

DictKeys(d) == [i \in 1..Len(d) |-> d[i].k]

DictValues(d) == [i \in 1..Len(d) |-> d[i].v]

KeySet(d) == {d[i].k : i \in 1..Len(d)}

SeqToSet(s) == {s[i] : i \in 1..Len(s)}

(***************************************************************************)
(* Database.                                                               *)
(***************************************************************************)
Database(base_directory, hashes) ==
    [base_directory |-> base_directory, hashes |-> hashes]

\* Database.is_newer_than_recorded raises ValueError (relative_to) for a
\* file that is not under the base directory
IsNewerRaises(db, song_file_data) ==
    ~IsRelativeTo(song_file_data.path, db.base_directory)

\* is_newer_than_recorded with >= for >
IsNewerOrSame(db, song_file_data) ==
    LET key == RelativeTo(song_file_data.path, db.base_directory)
    IN  IF ~DictHas(db.hashes, key) THEN TRUE
        ELSE song_file_data.timestamp_ns >= DictGet(db.hashes, key).timestamp_ns

\* Database.is_newer_than_recorded
IsNewerThanRecorded(db, song_file_data) ==
    LET key == RelativeTo(song_file_data.path, db.base_directory)
    IN  IF ~DictHas(db.hashes, key) THEN TRUE
        ELSE song_file_data.timestamp_ns > DictGet(db.hashes, key).timestamp_ns

\* matches_recorded_hash comparing the whole record, not its digest
MatchesRecordedRecord(db, song_hash) ==
    DictGet(db.hashes, song_hash.path) = song_hash

\* Database.matches_recorded_hash (a KeyError when the path has no record)
MatchesRecordedHash(db, song_hash) ==
    DictGet(db.hashes, song_hash.path).sha256 = song_hash.sha256

\* the dict.update of Database.update, item by item; an item whose path is
\* not under the base directory raises and ends it, the items before it kept
RECURSIVE UpdateHashes(_, _, _)
UpdateHashes(hashes, base_directory, new_hashes) ==
    IF new_hashes = <<>> THEN hashes
    ELSE IF ~IsRelativeTo(Head(new_hashes).path, base_directory) THEN hashes
    ELSE LET path == RelativeTo(Head(new_hashes).path, base_directory)
             s == [Head(new_hashes) EXCEPT !.path = path]
         IN  UpdateHashes(DictPut(hashes, path, s), base_directory, Tail(new_hashes))

\* update that assigns the new records instead of merging them
UpdateReplacingAll(db, new_hashes) ==
    Database(db.base_directory, UpdateHashes(<<>>, db.base_directory, new_hashes))

\* update that stores each record as it came, its path not made relative
UpdateKeepingPaths(db, new_hashes) ==
    Database(db.base_directory,
             db.hashes \o [i \in 1..Len(new_hashes) |->
                 [k |-> RelativeTo(new_hashes[i].path, db.base_directory),
                  v |-> new_hashes[i]]])

\* Database.update
Update(db, new_hashes) ==
    Database(db.base_directory,
             UpdateHashes(db.hashes, db.base_directory, new_hashes))

\* get_songs_to_update
GetSongsToUpdate(songs_pre_check, old_database) ==
    SelectSeq(songs_pre_check, LAMBDA s : IsNewerThanRecorded(old_database, s))

\* get_songs_to_update raises when is_newer_than_recorded does
GetSongsToUpdateRaises(songs_pre_check, old_database) ==
    \E i \in 1..Len(songs_pre_check) : IsNewerRaises(old_database, songs_pre_check[i])

(***************************************************************************)
(* The database file.  A file is [exists, text].                           *)
(***************************************************************************)
NoFile == [exists |-> FALSE, text |-> <<>>]

FileOf(text) == [exists |-> TRUE, text |-> text]

\* sorted(): insertion of x into a sorted sequence, after its equals
RECURSIVE InsertSorted(_, _)
InsertSorted(sorted, x) ==
    IF sorted = <<>> THEN <<x>>
    ELSE IF SongHashLess(x, Head(sorted)) THEN <<x>> \o sorted
    ELSE <<Head(sorted)>> \o InsertSorted(Tail(sorted), x)

RECURSIVE Sorted(_)
Sorted(s) ==
    IF s = <<>> THEN <<>>
    ELSE InsertSorted(Sorted(SubSeq(s, 1, Len(s) - 1)), s[Len(s)])

\* the line output prints for one record
RecordLine(song_hash) ==
    song_hash.path \o <<TAB>> \o song_hash.sha256 \o <<TAB>>
        \o IntToStr(song_hash.timestamp_ns) \o <<NL>>

\* output: the text written to the file
OutputText(db) ==
    LET hashes == Sorted(DictValues(db.hashes))
    IN  db.base_directory \o <<NL>>
            \o Concat([i \in 1..Len(hashes) |-> RecordLine(hashes[i])])

\* the stripped lines read_database works on
StrippedLines(text) ==
    LET lines == ReadLines(text)
    IN  [i \in 1..Len(lines) |-> Strip(lines[i])]

\* read_database raises ValueError: no header line, a line that does not
\* have three fields, or a timestamp int() rejects
ReadRaises(file) ==
    LET lines == StrippedLines(file.text)
    IN  /\ file.exists
        /\ \/ lines = <<>>
           \/ \E i \in 2..Len(lines) :
                LET fields == Split(lines[i], TAB)
                IN  Len(fields) # 3 \/ ~IsIntLiteral(fields[3])

\* the dict comprehension of read_database over the split lines
RECURSIVE HashesOfLines(_, _)
HashesOfLines(file_lines, acc) ==
    IF file_lines = <<>> THEN acc
    ELSE LET fields == Split(Head(file_lines), TAB)
             path == PathFromStr(fields[1])
         IN  HashesOfLines(Tail(file_lines),
                 DictPut(acc, path, SongHash(path, fields[2], StrToInt(fields[3]))))

\* read_database of a file that exists and parses
ReadDatabase(file) ==
    LET lines == StrippedLines(file.text)
    IN  Database(PathFromStr(Head(lines)), HashesOfLines(Tail(lines), <<>>))

(***************************************************************************)
(* Diff.                                                                   *)
(***************************************************************************)
\* the first loop of diff_databases: the paths of older not in newer
DiffRemoved(older, newer) ==
    SelectSeq(DictKeys(older.hashes), LAMBDA path : ~DictHas(newer.hashes, path))

\* the first loop taking a path for modified when its timestamps differ
DiffModifiedByTime(older, newer) ==
    LET both == SelectSeq(older.hashes, LAMBDA it : DictHas(newer.hashes, it.k))
        differ == SelectSeq(both, LAMBDA it :
                      DictGet(newer.hashes, it.k).timestamp_ns # it.v.timestamp_ns)
    IN  DictKeys(differ)

\* the first loop of diff_databases: the paths of older in newer whose
\* record newer does not match
DiffModified(older, newer) ==
    LET both == SelectSeq(older.hashes, LAMBDA it : DictHas(newer.hashes, it.k))
        differ == SelectSeq(both, LAMBDA it : ~MatchesRecordedHash(newer, it.v))
    IN  DictKeys(differ)

\* the second loop without its test
DiffAddedAll(older, newer) == DictKeys(newer.hashes)

\* the second loop of diff_databases
DiffAdded(older, newer) ==
    SelectSeq(DictKeys(newer.hashes), LAMBDA path : ~DictHas(older.hashes, path))

\* diff_databases
DiffDatabases(older, newer) ==
    [added |-> DiffAdded(older, newer),
     removed |-> DiffRemoved(older, newer),
     modified |-> DiffModified(older, newer)]

(***************************************************************************)
(* The state.                                                              *)
(***************************************************************************)
VARIABLES
    fs,              \* the files on disk: path -> [mtime, contents]
    dbfile,          \* the database file
    pc,              \* the main thread: "idle", "hashing", "returned", "exited"
    outcome,         \* how the scan ended: "nothing", "updated", "exit1", "error"
    base,            \* base_directory of the scan
    database,        \* the Database of the scan
    song_file_data,  \* the argument of hash_songs
    q,               \* the Queue
    ppc,             \* the reader thread: "off", "read", "put", "end", "done", "died"
    pidx,            \* the reader's position in song_file_data (enumerate from 1)
    psong,           \* the Song read and not yet put
    hashes,          \* the list hash_songs_from_queue collects
    printed,         \* the progress lines printed
    \* what the properties look back at
    loaded,          \* the Database as ensure_database returned it
    preFile,         \* the database file as the scan found it
    enumerated,      \* whether the scan has enumerated the directory
    reads,           \* the contents the reader thread has read, in order
    changes,         \* what changed on disk since the last scan began
    scanAfter,       \* the value of changes when this scan began
    call             \* the Database operation applied on its own, with its result

vars ==
    << fs, dbfile, pc, outcome, base, database, song_file_data, q, ppc, pidx,
       psong, hashes, printed, loaded, preFile, enumerated, reads, changes,
       scanAfter, call >>

(***************************************************************************)
(* The files of the model.                                                 *)
(***************************************************************************)
\* the directory scanned
ScanDir == << "/", "m" >>

\* the media files that may appear in it; the second one's name begins
\* with a space
FileA == << "/", "m", "/", "a", ".", "m", "p", "3" >>

FileSpaceA == << "/", "m", "/", " ", "a", ".", "m", "p", "3" >>

MediaFiles == { FileA, FileSpaceA }

\* a file scan passes over
TextFile == << "/", "m", "/", "n", ".", "t", "x", "t" >>

\* the base directories a scan is asked for: the directory itself (the
\* default), its parent, and a directory the files are not under
RootDir == << "/" >>

OtherDir == << "/", "n" >>

Bases == { ScanDir, RootDir, OtherDir }

Times == 1..MaxTime

FileState(mtime, contents) == [mtime |-> mtime, contents |-> contents]

\* the i-th file of a pipeline run on its own
PipePath(i) == << "/", "m", "/" >> \o NatToStr(i) \o << ".", "m", "p", "3" >>

PipeTime(i) == ((i - 1) % MaxTime) + 1

PipeContents(i) == IF ((i - 1) \div MaxTime) % 2 = 0 THEN "X" ELSE "Y"

\* the orders in which a set may be enumerated
Orders(S) ==
    {o \in [1..Cardinality(S) -> S] : \A i, j \in 1..Cardinality(S) : o[i] = o[j] => i = j}

NoSong == Song(<<>>, "", 0, 0)

\* the items of the queue: a Song, or None
SongItem(song) == [none |-> FALSE, song |-> song]

NoneItem == [none |-> TRUE, song |-> NoSong]

NoCall == [op |-> "none"]

\* values of changes: nothing changed; one file was touched or edited and
\* nothing else; anything else, also when there is no successful scan before
Unchanged == [kind |-> "none", path |-> <<>>]

OneChange(kind, p) == [kind |-> kind, path |-> p]

OtherChange == [kind |-> "other", path |-> <<>>]

(***************************************************************************)
(* The pipeline: read_songs_into_queue in its thread, and                  *)
(* hash_songs_from_queue in the main thread.                               *)
(***************************************************************************)
\* a queue that gives its newest item first
QueueGetNewest(queue) ==
    [item |-> queue[Len(queue)], rest |-> SubSeq(queue, 1, Len(queue) - 1)]

\* Queue.get: the oldest item, and the queue without it
QueueGet(queue) == [item |-> Head(queue), rest |-> Tail(queue)]

\* the reader thread numbering the files from 0 (enumerate without start=1)
ProducerReadFromZero ==
    /\ ppc = "read"
    /\ LET file_data == song_file_data[pidx]
       IN  IF file_data.path \in DOMAIN fs
           THEN /\ psong' = Song(file_data.path, fs[file_data.path].contents,
                                 pidx - 1, file_data.timestamp_ns)
                /\ reads' = Append(reads, fs[file_data.path].contents)
                /\ ppc' = "put"
           ELSE /\ ppc' = "died"
                /\ UNCHANGED << psong, reads >>
    /\ UNCHANGED << fs, dbfile, pc, outcome, base, database, song_file_data, q,
                    pidx, hashes, printed, loaded, preFile, enumerated, changes,
                    scanAfter, call >>

\* Song.from_file_data in the reader thread: the file is opened and read;
\* a file that is gone raises, which ends the thread
ProducerRead ==
    /\ ppc = "read"
    /\ LET file_data == song_file_data[pidx]
       IN  IF file_data.path \in DOMAIN fs
           THEN /\ psong' = Song(file_data.path, fs[file_data.path].contents,
                                 pidx, file_data.timestamp_ns)
                /\ reads' = Append(reads, fs[file_data.path].contents)
                /\ ppc' = "put"
           ELSE /\ ppc' = "died"
                /\ UNCHANGED << psong, reads >>
    /\ UNCHANGED << fs, dbfile, pc, outcome, base, database, song_file_data, q,
                    pidx, hashes, printed, loaded, preFile, enumerated, changes,
                    scanAfter, call >>

\* q.put(song) on a queue without maxsize: it never waits
ProducerPutNoWait ==
    /\ ppc = "put"
    /\ q' = Append(q, SongItem(psong))
    /\ psong' = NoSong
    /\ pidx' = pidx + 1
    /\ ppc' = IF pidx + 1 > Len(song_file_data) THEN "end" ELSE "read"
    /\ UNCHANGED << fs, dbfile, pc, outcome, base, database, song_file_data,
                    hashes, printed, loaded, preFile, enumerated, reads, changes,
                    scanAfter, call >>

\* q.put(song), which waits while the queue is full
ProducerPut ==
    /\ ppc = "put"
    /\ Len(q) < QueueMax
    /\ q' = Append(q, SongItem(psong))
    /\ psong' = NoSong
    /\ pidx' = pidx + 1
    /\ ppc' = IF pidx + 1 > Len(song_file_data) THEN "end" ELSE "read"
    /\ UNCHANGED << fs, dbfile, pc, outcome, base, database, song_file_data,
                    hashes, printed, loaded, preFile, enumerated, reads, changes,
                    scanAfter, call >>

\* read_songs_into_queue without its last statement: the thread ends and
\* None is not put
ProducerEndNoSentinel ==
    /\ ppc = "end"
    /\ ppc' = "done"
    /\ UNCHANGED << fs, dbfile, pc, outcome, base, database, song_file_data, q,
                    pidx, psong, hashes, printed, loaded, preFile, enumerated,
                    reads, changes, scanAfter, call >>

\* q.put(None) after the loop
ProducerEnd ==
    /\ ppc = "end"
    /\ Len(q) < QueueMax
    /\ q' = Append(q, NoneItem)
    /\ ppc' = "done"
    /\ UNCHANGED << fs, dbfile, pc, outcome, base, database, song_file_data,
                    pidx, psong, hashes, printed, loaded, preFile, enumerated,
                    reads, changes, scanAfter, call >>

\* one turn of the loop of hash_songs_from_queue: q.get(), which waits
\* while the queue is empty; None ends the loop and the list is returned
ConsumerGet ==
    /\ pc = "hashing"
    /\ q # <<>>
    /\ LET got == QueueGet(q)
           song == got.item.song
       IN  /\ q' = got.rest
           /\ IF got.item.none
              THEN /\ pc' = "returned"
                   /\ UNCHANGED << hashes, printed >>
              ELSE /\ printed' = Append(printed,
                        [number |-> song.number, total |-> Len(song_file_data),
                         path |-> song.path])
                   /\ hashes' = Append(hashes, SongHashFromSong(song))
                   /\ UNCHANGED pc
    /\ UNCHANGED << fs, dbfile, outcome, base, database, song_file_data, ppc,
                    pidx, psong, loaded, preFile, enumerated, reads, changes,
                    scanAfter, call >>

(***************************************************************************)
(* scan.                                                                   *)
(***************************************************************************)
\* ensure_database without its comparison of the base directories
EnsureDatabaseNoCheck(base_directory, file) ==
    IF ~file.exists THEN [tag |-> "ok", database |-> Database(base_directory, <<>>)]
    ELSE IF ReadRaises(file)
    THEN [tag |-> "error", database |-> Database(base_directory, <<>>)]
    ELSE [tag |-> "ok", database |-> ReadDatabase(file)]

\* ensure_database: "ok" with the Database, "exit1" for typer.Exit(1),
\* "error" when read_database raises
EnsureDatabase(base_directory, file) ==
    IF ~file.exists THEN [tag |-> "ok", database |-> Database(base_directory, <<>>)]
    ELSE IF ReadRaises(file)
    THEN [tag |-> "error", database |-> Database(base_directory, <<>>)]
    ELSE LET db == ReadDatabase(file)
         IN  IF db.base_directory # base_directory
             THEN [tag |-> "exit1", database |-> db]
             ELSE [tag |-> "ok", database |-> db]

\* the files directory.rglob('*') gives that scan keeps
IsSongFile(p) ==
    /\ IsRelativeTo(p, ScanDir)
    /\ Suffix(p) \in { << ".", "m", "p", "3" >>, << ".", "m", "4", "a" >> }

SongFilesOnDisk == {p \in DOMAIN fs : IsSongFile(p)}

\* scan without its test of an empty selection
NeverNothingToUpdate(songs_to_update) == FALSE

\* "if not songs_to_update" of scan
NothingToUpdate(songs_to_update) == songs_to_update = <<>>

\* scan, from its start to the start of the reader thread, or to its end
\* when it ends before
ScanStart(base_directory, order) ==
    /\ pc = "idle"
    /\ LET ens == EnsureDatabase(base_directory, dbfile)
           song_paths == [i \in 1..Len(order) |->
                            SongFileData(order[i], fs[order[i]].mtime)]
           raises == ens.tag = "ok" /\ GetSongsToUpdateRaises(song_paths, ens.database)
           songs_to_update ==
               IF ens.tag = "ok" /\ ~raises
               THEN GetSongsToUpdate(song_paths, ens.database) ELSE <<>>
       IN  /\ base' = base_directory
           /\ database' = ens.database
           /\ loaded' = ens.database
           /\ preFile' = dbfile
           /\ enumerated' = (ens.tag = "ok")
           /\ scanAfter' = IF base = base_directory THEN changes ELSE OtherChange
           /\ changes' = Unchanged
           /\ song_file_data' = songs_to_update
           /\ q' = <<>>
           /\ pidx' = 1
           /\ psong' = NoSong
           /\ hashes' = <<>>
           /\ printed' = <<>>
           /\ reads' = <<>>
           /\ IF ens.tag = "ok" /\ ~raises /\ ~NothingToUpdate(songs_to_update)
              THEN /\ pc' = "hashing"
                   /\ ppc' = IF songs_to_update = <<>> THEN "end" ELSE "read"
                   /\ outcome' = "running"
              ELSE /\ pc' = "exited"
                   /\ ppc' = "off"
                   /\ outcome' = IF ens.tag # "ok" THEN ens.tag
                                 ELSE IF raises THEN "error" ELSE "nothing"
    /\ UNCHANGED << fs, dbfile, call >>

\* scan with output before database.update
ScanFinishOutputFirst ==
    /\ pc = "returned"
    /\ outcome = "running"
    /\ dbfile' = FileOf(OutputText(database))
    /\ database' = Update(database, hashes)
    /\ pc' = "exited"
    /\ outcome' = "updated"
    /\ UNCHANGED << fs, base, song_file_data, q, ppc, pidx, psong, hashes,
                    printed, loaded, preFile, enumerated, reads, changes,
                    scanAfter, call >>

\* scan merging and writing what is hashed so far, the pipeline still going
ScanFinishWhileHashing ==
    /\ pc = "hashing"
    /\ hashes # <<>>
    /\ outcome = "running"
    /\ database' = Update(database, hashes)
    /\ dbfile' = FileOf(OutputText(database'))
    /\ pc' = "exited"
    /\ outcome' = "updated"
    /\ UNCHANGED << fs, base, song_file_data, q, ppc, pidx, psong, hashes,
                    printed, loaded, preFile, enumerated, reads, changes,
                    scanAfter, call >>

\* scan, after hash_songs returned: database.update and output
ScanFinish ==
    /\ pc = "returned"
    /\ outcome = "running"
    /\ database' = Update(database, hashes)
    /\ dbfile' = FileOf(OutputText(database'))
    /\ pc' = "exited"
    /\ outcome' = "updated"
    /\ UNCHANGED << fs, base, song_file_data, q, ppc, pidx, psong, hashes,
                    printed, loaded, preFile, enumerated, reads, changes,
                    scanAfter, call >>

\* the process has ended: what it held is gone.  A scan that failed is no
\* scan to look back at.
Exit ==
    /\ pc = "exited"
    /\ pc' = "idle"
    /\ changes' = IF outcome \in {"nothing", "updated"} THEN changes ELSE OtherChange
    /\ base' = IF outcome \in {"nothing", "updated"} THEN base ELSE ScanDir
    /\ outcome' = "none"
    /\ database' = Database(ScanDir, <<>>)
    /\ loaded' = Database(ScanDir, <<>>)
    /\ preFile' = NoFile
    /\ enumerated' = FALSE
    /\ scanAfter' = OtherChange
    /\ song_file_data' = <<>>
    /\ q' = <<>>
    /\ ppc' = "off"
    /\ pidx' = 1
    /\ psong' = NoSong
    /\ hashes' = <<>>
    /\ printed' = <<>>
    /\ reads' = <<>>
    /\ UNCHANGED << fs, dbfile, call >>

(***************************************************************************)
(* The file system around the program.  The one change made while a scan   *)
(* runs is the one the scan can tell from a change made before or after    *)
(* it: the removal of a file its reader thread has yet to read.  (A scan   *)
(* looks at a file twice: at its modification time when it enumerates, at  *)
(* its contents when it reads.  New contents under the same modification   *)
(* time, given before the read, are as if given before the scan.)          *)
(***************************************************************************)
envUnchanged ==
    UNCHANGED << dbfile, pc, outcome, base, database, song_file_data, q, ppc,
                 pidx, psong, hashes, printed, loaded, preFile, enumerated,
                 reads, scanAfter, call >>

\* the files the reader thread has yet to read
Unread ==
    IF ppc = "read"
    THEN {song_file_data[i].path : i \in pidx..Len(song_file_data)}
    ELSE IF ppc = "put"
    THEN {song_file_data[i].path : i \in (pidx + 1)..Len(song_file_data)}
    ELSE {}

\* a file appears
Create(p, mtime, contents) ==
    /\ pc = "idle"
    /\ p \notin DOMAIN fs
    /\ fs' = [x \in DOMAIN fs \cup {p} |->
                IF x = p THEN FileState(mtime, contents) ELSE fs[x]]
    /\ changes' = OtherChange
    /\ envUnchanged

\* a file is removed
Delete(p) ==
    /\ pc = "idle" \/ p \in Unread
    /\ p \in DOMAIN fs
    /\ fs' = [x \in DOMAIN fs \ {p} |-> fs[x]]
    /\ changes' = OtherChange
    /\ envUnchanged

\* a file gets a later modification time, its contents as they were
Touch(p, mtime) ==
    /\ pc = "idle"
    /\ p \in DOMAIN fs
    /\ mtime > fs[p].mtime
    /\ fs' = [fs EXCEPT ![p].mtime = mtime]
    /\ changes' = IF changes = Unchanged THEN OneChange("touch", p) ELSE OtherChange
    /\ envUnchanged

\* a file gets other contents, its modification time as it was
Modify(p, contents) ==
    /\ pc = "idle"
    /\ p \in DOMAIN fs
    /\ contents # fs[p].contents
    /\ fs' = [fs EXCEPT ![p].contents = contents]
    /\ changes' = IF changes = Unchanged THEN OneChange("edit", p) ELSE OtherChange
    /\ envUnchanged

(***************************************************************************)
(* The program in its directory: scans one after the other, the files      *)
(* changing meanwhile.                                                     *)
(***************************************************************************)
Init ==
    /\ fs = [p \in {TextFile} |-> FileState(1, "X")]
    /\ dbfile = NoFile
    /\ pc = "idle"
    /\ outcome = "none"
    /\ base = ScanDir
    /\ database = Database(ScanDir, <<>>)
    /\ song_file_data = <<>>
    /\ q = <<>>
    /\ ppc = "off"
    /\ pidx = 1
    /\ psong = NoSong
    /\ hashes = <<>>
    /\ printed = <<>>
    /\ loaded = Database(ScanDir, <<>>)
    /\ preFile = NoFile
    /\ enumerated = FALSE
    /\ reads = <<>>
    /\ changes = OtherChange
    /\ scanAfter = OtherChange
    /\ call = NoCall

Next ==
    \/ /\ pc = "idle"
       /\ \E b \in Bases : \E order \in Orders(SongFilesOnDisk) : ScanStart(b, order)
    \/ ProducerRead
    \/ ProducerPut
    \/ ProducerEnd
    \/ ConsumerGet
    \/ ScanFinish
    \/ Exit
    \/ \E p \in MediaFiles : \E t \in Times : \E c \in Contents : Create(p, t, c)
    \/ \E p \in MediaFiles : Delete(p)
    \/ \E p \in MediaFiles : \E t \in Times : Touch(p, t)
    \/ \E p \in MediaFiles : \E c \in Contents : Modify(p, c)

Spec == Init /\ [][Next]_vars

(***************************************************************************)
(* hash_songs on its own, on 0..MaxPipeLen files, one of which may be gone *)
(* by the time it is read.                                                 *)
(***************************************************************************)
PipeInit ==
    /\ \E n \in 0..MaxPipeLen : \E gone \in 0..n :
          /\ song_file_data = [i \in 1..n |-> SongFileData(PipePath(i), PipeTime(i))]
          /\ fs = [p \in {PipePath(i) : i \in (1..n) \ {gone}} |->
                     LET i == CHOOSE j \in 1..n : PipePath(j) = p
                     IN  FileState(PipeTime(i), PipeContents(i))]
          /\ ppc = IF n = 0 THEN "end" ELSE "read"
    /\ dbfile = NoFile
    /\ pc = "hashing"
    /\ outcome = "running"
    /\ base = ScanDir
    /\ database = Database(ScanDir, <<>>)
    /\ q = <<>>
    /\ pidx = 1
    /\ psong = NoSong
    /\ hashes = <<>>
    /\ printed = <<>>
    /\ loaded = Database(ScanDir, <<>>)
    /\ preFile = NoFile
    /\ enumerated = TRUE
    /\ reads = <<>>
    /\ changes = Unchanged
    /\ scanAfter = OtherChange
    /\ call = NoCall

PipeNext ==
    \/ ProducerRead
    \/ ProducerPut
    \/ ProducerEnd
    \/ ConsumerGet

PipeSpec == PipeInit /\ [][PipeNext]_vars

\* both threads are scheduled: a step that stays possible is taken
FairPipeSpec ==
    /\ PipeSpec
    /\ WF_vars(ProducerRead \/ ProducerPut \/ ProducerEnd)
    /\ WF_vars(ConsumerGet)

(***************************************************************************)
(* The Database operations on their own: is_newer_than_recorded, update    *)
(* and diff_databases, each applied once to databases of up to two records *)
(* over three files, the records in either insertion order.                *)
(***************************************************************************)
FileB == << "/", "m", "/", "b", ".", "m", "p", "3" >>

DbFiles == { FileA, FileSpaceA, FileB }

\* the lists hash_songs can return for these files: up to two records
DbRecords ==
    {SongHash(f, Sha256Hex(c), t) : f \in DbFiles, c \in Contents, t \in Times}

NewHashLists ==
    {<<>>} \cup {<<r>> : r \in DbRecords}
           \cup {<<r1, r2>> : r1 \in DbRecords, r2 \in DbRecords}

\* the databases: the empty one of ensure_database, updated once
Databases == {Update(Database(ScanDir, <<>>), l) : l \in NewHashLists}

DbInit ==
    /\ database \in Databases
    /\ call = NoCall
    /\ fs = [p \in {TextFile} |-> FileState(1, "X")]
    /\ dbfile = NoFile
    /\ pc = "called"
    /\ outcome = "none"
    /\ base = ScanDir
    /\ song_file_data = <<>>
    /\ q = <<>>
    /\ ppc = "off"
    /\ pidx = 1
    /\ psong = NoSong
    /\ hashes = <<>>
    /\ printed = <<>>
    /\ loaded = Database(ScanDir, <<>>)
    /\ preFile = NoFile
    /\ enumerated = FALSE
    /\ reads = <<>>
    /\ changes = OtherChange
    /\ scanAfter = OtherChange

dbUnchanged ==
    UNCHANGED << fs, dbfile, pc, outcome, base, song_file_data, q, ppc, pidx,
                 psong, hashes, printed, loaded, preFile, enumerated, reads,
                 changes, scanAfter >>

\* database.is_newer_than_recorded(song_file_data)
CallIsNewer(file_data) ==
    /\ pc = "called"
    /\ call = NoCall
    /\ ~IsNewerRaises(database, file_data)
    /\ call' = [op |-> "is_newer", db |-> database, arg |-> file_data,
                result |-> IsNewerThanRecorded(database, file_data)]
    /\ UNCHANGED database
    /\ dbUnchanged

\* database.update(new_hashes)
CallUpdate(new_hashes) ==
    /\ pc = "called"
    /\ call = NoCall
    /\ database' = Update(database, new_hashes)
    /\ call' = [op |-> "update", db |-> database, arg |-> new_hashes]
    /\ dbUnchanged

\* diff_databases(database, newer)
CallDiff(newer) ==
    /\ pc = "called"
    /\ call = NoCall
    /\ call' = [op |-> "diff", older |-> database, newer |-> newer,
                result |-> DiffDatabases(database, newer)]
    /\ UNCHANGED database
    /\ dbUnchanged

\* output(database, filename)
CallOutput ==
    /\ pc = "called"
    /\ call = NoCall
    /\ dbfile' = FileOf(OutputText(database))
    /\ call' = [op |-> "output", db |-> database]
    /\ UNCHANGED << fs, database, pc, outcome, base, song_file_data, q, ppc,
                    pidx, psong, hashes, printed, loaded, preFile, enumerated,
                    reads, changes, scanAfter >>

\* read_database(filename) of the file output wrote
CallRead ==
    /\ pc = "called"
    /\ call.op = "output"
    /\ ~ReadRaises(dbfile)
    /\ call' = [op |-> "read", db |-> call.db, result |-> ReadDatabase(dbfile)]
    /\ UNCHANGED database
    /\ dbUnchanged

DbNext ==
    \/ \E f \in DbFiles : \E t \in Times : CallIsNewer(SongFileData(f, t))
    \/ \E l \in NewHashLists : CallUpdate(l)
    \/ \E d \in Databases : CallDiff(d)
    \/ CallOutput
    \/ CallRead

DbSpec == DbInit /\ [][DbNext]_vars

(***************************************************************************)
(* Properties.                                                             *)
(***************************************************************************)
\* the record hash_songs owes the i-th file of its input
ExpectedHash(i) ==
    SongHash(song_file_data[i].path, Sha256Hex(reads[i]),
             song_file_data[i].timestamp_ns)

\* C1: when hash_songs returns, its list holds one record per input file,
\* in input order, each with the file's path, the modification time it was
\* enumerated with and the digest of the bytes the reader thread read
C1_ResultInInputOrder ==
    pc = "returned" =>
        /\ Len(reads) = Len(song_file_data)
        /\ Len(hashes) = Len(song_file_data)
        /\ \A i \in 1..Len(song_file_data) :
              /\ hashes[i] = ExpectedHash(i)
              /\ reads[i] = fs[song_file_data[i].path].contents

\* hash_songs returned for an input longer than the queue
C1_Witness ==
    /\ pc = "returned"
    /\ Len(hashes) > QueueMax

\* C2: once a read has failed, hash_songs ends, and not by returning a list
C2_ReadFailureAborts ==
    (ppc = "died") ~> (pc \notin {"hashing", "returned"})

\* the list hash_songs owes a scan whose reads are all done
ExpectedHashes == [i \in 1..Len(song_file_data) |-> ExpectedHash(i)]

C4_SecondScanChangesNothing ==
    (pc # "idle" /\ scanAfter = Unchanged) =>
        /\ pc = "exited"
        /\ outcome = "nothing"
        /\ song_file_data = <<>>
        /\ hashes = <<>>
        /\ dbfile = preFile

SelectedPaths == {song_file_data[i].path : i \in 1..Len(song_file_data)}

\* whether the Database of the scan holds for file p the record it loaded
KeepsRecord(p) ==
    LET key == RelativeTo(p, base)
    IN  /\ DictHas(loaded.hashes, key)
        /\ DictHas(database.hashes, key)
        /\ DictGet(database.hashes, key) = DictGet(loaded.hashes, key)

\* C5: in a scan begun after a successful scan, a file touched since that
\* one began (later modification time, same contents) is among the files
\* hashed; a file edited since (other contents, same modification time) is
\* not, and keeps its record; and every record of a file not hashed stays
C5_StaleSubsetHashed ==
    (pc # "idle" /\ enumerated /\ outcome # "error") =>
        /\ scanAfter.kind = "touch" => scanAfter.path \in SelectedPaths
        /\ scanAfter.kind = "edit" =>
              scanAfter.path \notin SelectedPaths /\ KeepsRecord(scanAfter.path)
        /\ \A i \in 1..Len(loaded.hashes) :
              loaded.hashes[i].k \notin {RelativeTo(p, base) : p \in SelectedPaths}
                  => /\ DictHas(database.hashes, loaded.hashes[i].k)
                     /\ DictGet(database.hashes, loaded.hashes[i].k) = loaded.hashes[i].v

\* the records a Database holds for a key
RecordsAt(db, key) == {db.hashes[i].v : i \in {j \in 1..Len(db.hashes) : db.hashes[j].k = key}}

\* C6: is_newer_than_recorded is true exactly when the database holds no
\* record for the file's path relative to the base directory, or the file's
\* modification time is greater than the recorded one
C6_StaleIffAbsentOrNewer ==
    call.op = "is_newer" =>
        LET stored == RecordsAt(call.db, RelativeTo(call.arg.path, call.db.base_directory))
        IN  /\ call.result = TRUE <=>
                  (stored = {} \/ \E r \in stored : call.arg.timestamp_ns > r.timestamp_ns)
            /\ (\E r \in stored : call.arg.timestamp_ns <= r.timestamp_ns)
                  => call.result = FALSE

\* asked about a file recorded with the very modification time it has
C6_Witness ==
    /\ call.op = "is_newer"
    /\ \E r \in RecordsAt(call.db, RelativeTo(call.arg.path, call.db.base_directory)) :
          r.timestamp_ns = call.arg.timestamp_ns
    /\ call.result = FALSE

\* the last record a list holds for a path
LastFor(new_hashes, p) ==
    new_hashes[SetMax({i \in 1..Len(new_hashes) : new_hashes[i].path = p})]

\* C7: update puts each new record under its path relative to the base
\* directory, leaves every other record and the base directory as they are
C7_UpdateMerges ==
    call.op = "update" =>
        LET before == call.db
            newPaths == {call.arg[i].path : i \in 1..Len(call.arg)}
            newKeys == {RelativeTo(p, before.base_directory) : p \in newPaths}
        IN  /\ database.base_directory = before.base_directory
            /\ KeySet(database.hashes) = KeySet(before.hashes) \cup newKeys
            /\ Len(database.hashes) = Cardinality(KeySet(database.hashes))
            /\ \A k \in KeySet(before.hashes) \ newKeys :
                  DictGet(database.hashes, k) = DictGet(before.hashes, k)
            /\ \A p \in newPaths :
                  LET k == RelativeTo(p, before.base_directory)
                      r == LastFor(call.arg, p)
                  IN  DictGet(database.hashes, k) =
                          SongHash(k, r.sha256, r.timestamp_ns)

KeyA == << "a", ".", "m", "p", "3" >>

KeySpaceA == << " ", "a", ".", "m", "p", "3" >>

KeyB == << "b", ".", "m", "p", "3" >>

\* {B', C} merged into {A, B} gives {A, B', C}
C7_Witness ==
    /\ call.op = "update"
    /\ KeySet(call.db.hashes) = {KeyA, KeyB}
    /\ {call.arg[i].path : i \in 1..Len(call.arg)} = {FileB, FileSpaceA}
    /\ KeySet(database.hashes) = {KeyA, KeyB, KeySpaceA}
    /\ DictGet(database.hashes, KeyB) # DictGet(call.db.hashes, KeyB)
    /\ DictGet(database.hashes, KeyA) = DictGet(call.db.hashes, KeyA)

\* whether a sequence holds no element twice
NoRepeat(s) == Cardinality(SeqToSet(s)) = Len(s)

\* the digest a Database records for a key
DigestAt(db, key) == DictGet(db.hashes, key).sha256

\* C8: diff_databases reports as removed the paths of older not in newer,
\* as added the paths of newer not in older, as modified the paths in both
\* whose digests differ, each once; a path in both with one digest is in
\* none of the three
C8_DiffClassifies ==
    call.op = "diff" =>
        LET old == KeySet(call.older.hashes)
            new == KeySet(call.newer.hashes)
            d == call.result
        IN  /\ SeqToSet(d.removed) = old \ new
            /\ SeqToSet(d.added) = new \ old
            /\ SeqToSet(d.modified) =
                  {k \in old \cap new : DigestAt(call.older, k) # DigestAt(call.newer, k)}
            /\ NoRepeat(d.removed) /\ NoRepeat(d.added) /\ NoRepeat(d.modified)
            /\ \A k \in old \cap new :
                  DigestAt(call.older, k) = DigestAt(call.newer, k)
                      => k \notin SeqToSet(d.removed) \cup SeqToSet(d.added)
                                      \cup SeqToSet(d.modified)

\* one path modified, another in both with one digest and two timestamps
C8_Witness ==
    /\ call.op = "diff"
    /\ call.result.modified # <<>>
    /\ \E k \in KeySet(call.older.hashes) \cap KeySet(call.newer.hashes) :
          /\ DigestAt(call.older, k) = DigestAt(call.newer, k)
          /\ DictGet(call.older.hashes, k) # DictGet(call.newer.hashes, k)
          /\ k \notin SeqToSet(call.result.modified)

\* C9: the diff of a database with itself is empty; the diff of two
\* databases with no path in common adds all of newer, removes all of older
\* and modifies nothing
C9_DiffLaws ==
    call.op = "diff" =>
        LET old == KeySet(call.older.hashes)
            new == KeySet(call.newer.hashes)
            d == call.result
        IN  /\ call.older = call.newer
                  => d.added = <<>> /\ d.removed = <<>> /\ d.modified = <<>>
            /\ old \cap new = {}
                  => /\ SeqToSet(d.added) = new
                     /\ SeqToSet(d.removed) = old
                     /\ d.modified = <<>>

\* an older database of two records, a newer one of one, no path in common
C9_Witness ==
    /\ call.op = "diff"
    /\ KeySet(call.older.hashes) \cap KeySet(call.newer.hashes) = {}
    /\ Len(call.result.added) = 1
    /\ Len(call.result.removed) = 2

\* C10: a scan that finds a database file recorded for another base
\* directory ends with exit status 1, nothing enumerated, nothing read or
\* hashed, the file as it was
C10_MismatchEndsScan ==
    (/\ pc # "idle"
     /\ preFile.exists
     /\ ~ReadRaises(preFile)
     /\ ReadDatabase(preFile).base_directory # base) =>
        /\ pc = "exited"
        /\ outcome = "exit1"
        /\ ~enumerated
        /\ ppc = "off"
        /\ reads = <<>>
        /\ hashes = <<>>
        /\ dbfile = preFile

\* a scan ended so with files on disk it would have hashed
C10_Witness ==
    /\ pc = "exited"
    /\ outcome = "exit1"
    /\ preFile.exists
    /\ \E p \in SongFilesOnDisk :
          IsRelativeTo(p, base) /\ ~DictHas(loaded.hashes, RelativeTo(p, base))

\* the set of records of a Database
RecordSet(db) == SeqToSet(DictValues(db.hashes))

\* C11: read_database of the file output wrote for a Database gives a
\* Database with the same base directory and the same set of records
C11_RoundTrip ==
    call.op = "read" =>
        /\ call.result.base_directory = call.db.base_directory
        /\ RecordSet(call.result) = RecordSet(call.db)

\* the reader thread is in a q.put that cannot go on
ProducerBlocked == ppc \in {"put", "end"} /\ Len(q) = QueueMax

\* the main thread is in a q.get that cannot go on
ConsumerBlocked == pc = "hashing" /\ q = <<>>

\* C12: the queue never holds more than 8 items, None included; while it is
\* full the reader thread stays in its put, and while it is empty the main
\* thread stays in its get
C12_QueueBounded ==
    /\ [](Len(q) <= QueueMax)
    /\ [][/\ ProducerBlocked => (ppc' = ppc /\ pidx' = pidx /\ psong' = psong)
          /\ ConsumerBlocked =>
                (pc' = pc /\ hashes' = hashes /\ printed' = printed)]_vars

\* the queue is full and the reader thread has a Song to put
C12_Witness ==
    /\ Len(q) = QueueMax
    /\ ppc = "put"
    /\ pc = "hashing"

\* every file handed to the pipeline can be read
AllReadable == \A i \in 1..Len(song_file_data) : song_file_data[i].path \in DOMAIN fs

\* the positions of None in the queue
NonePositions == {i \in 1..Len(q) : q[i].none}

\* C13: when every read succeeds, hash_songs returns, whatever the number
\* of files; None is put once, after the last Song, and taken last; the two
\* threads are never both waiting
C13_PipelineTerminates ==
    /\ AllReadable ~> (pc = "returned" /\ ppc = "done" /\ q = <<>>)
    /\ [](/\ NonePositions \subseteq {Len(q)}
          /\ NonePositions # {} => ppc = "done"
          /\ pc = "returned" => (ppc = "done" /\ q = <<>>)
          /\ ~(ProducerBlocked /\ ConsumerBlocked))

\* hash_songs returned for the longest input, every file read
C13_Witness ==
    /\ pc = "returned"
    /\ ppc = "done"
    /\ Len(reads) = MaxPipeLen

\* C14: a scan that selects no file ends with success, its reader thread
\* never started, nothing read, hashed or printed, and the database file as
\* it found it, also when there was none
C14_NothingSelectedNothingTouched ==
    (pc # "idle" /\ enumerated /\ outcome # "error" /\ song_file_data = <<>>) =>
        /\ pc = "exited"
        /\ outcome = "nothing"
        /\ ppc = "off"
        /\ q = <<>>
        /\ reads = <<>>
        /\ hashes = <<>>
        /\ printed = <<>>
        /\ database = loaded
        /\ dbfile = preFile

\* such a scan where there was no database file: there is none after it
C14_Witness ==
    /\ pc = "exited"
    /\ outcome = "nothing"
    /\ enumerated
    /\ ~preFile.exists
    /\ ~dbfile.exists

\* C15: while the pipeline runs, the Database and the database file stay
\* as they are and no file is selected; they change only when scan loads
\* and queries the Database before it starts the reader thread, when the
\* process ends, or when hash_songs has returned with the reader thread
\* done and the queue empty
C15_DatabaseOutsidePipeline ==
    [][/\ pc = "hashing" =>
            /\ database' = database
            /\ dbfile' = dbfile
            /\ song_file_data' = song_file_data
       /\ (database' # database \/ dbfile' # dbfile) =>
            \/ pc = "idle" /\ ppc = "off"
            \/ pc = "exited"
            \/ pc = "returned" /\ ppc = "done" /\ q = <<>>]_vars

\* a scan has merged and written the records of a pipeline that filled
\* its part of the Database, the reader thread done and the queue empty
C15_Witness ==
    /\ outcome = "updated"
    /\ ppc = "done"
    /\ q = <<>>
    /\ database # loaded
    /\ dbfile # preFile

\* the databases that differ from db in the modification times of its
\* records at most
Retimed(db) ==
    {Database(db.base_directory,
              [i \in 1..Len(db.hashes) |->
                  [k |-> db.hashes[i].k,
                   v |-> [db.hashes[i].v EXCEPT !.timestamp_ns = ts[i]]]]) :
         ts \in [1..Len(db.hashes) -> Times]}

\* C16: diff_databases gives the same three lists for any two databases
\* that differ from its arguments in modification times only; a path in
\* both with one digest is not modified, whatever its two timestamps
C16_DiffIgnoresTimestamps ==
    call.op = "diff" =>
        /\ \A o \in Retimed(call.older) : \A n \in Retimed(call.newer) :
              DiffDatabases(o, n) = call.result
        /\ (/\ KeySet(call.older.hashes) = KeySet(call.newer.hashes)
            /\ \A k \in KeySet(call.older.hashes) :
                  DigestAt(call.older, k) = DigestAt(call.newer, k))
              => call.result.modified = <<>>

\* two databases of two records each, the same paths and digests, every
\* timestamp other: nothing modified
C16_Witness ==
    /\ call.op = "diff"
    /\ Len(call.older.hashes) = 2
    /\ KeySet(call.older.hashes) = KeySet(call.newer.hashes)
    /\ \A k \in KeySet(call.older.hashes) :
          /\ DigestAt(call.older, k) = DigestAt(call.newer, k)
          /\ DictGet(call.older.hashes, k).timestamp_ns
                 # DictGet(call.newer.hashes, k).timestamp_ns
    /\ call.result.modified = <<>>
    /\ call.result.added = <<>>
    /\ call.result.removed = <<>>

\* the numbers of the Songs in the queue, in queue order
QueuedNumbers ==
    LET songs == SelectSeq(q, LAMBDA item : ~item.none)
    IN  [i \in 1..Len(songs) |-> songs[i].song.number]

\* the progress line of the i-th file handed to the pipeline
ProgressLine(i) ==
    [number |-> i, total |-> Len(song_file_data), path |-> song_file_data[i].path]

\* C17: the Songs taken from the queue followed by those in it are the
\* Songs put, each once, numbered 1, 2, ... in order; each Song taken has
\* its progress line and its record; and when hash_songs returns with every
\* read done, the lines printed are those of files 1..n in order, each
\* with total n
C17_ProgressLines ==
    /\ [i \in 1..Len(printed) |-> printed[i].number] \o QueuedNumbers
           = [i \in 1..(Len(printed) + Len(QueuedNumbers)) |-> i]
    /\ Len(printed) + Len(QueuedNumbers) = Len(reads) - (IF ppc = "put" THEN 1 ELSE 0)
    /\ Len(hashes) = Len(printed)
    /\ \A i \in 1..Len(printed) : printed[i] = ProgressLine(i)
    /\ (pc = "returned" /\ AllReadable) =>
           printed = [i \in 1..Len(song_file_data) |-> ProgressLine(i)]

\* hash_songs returned having printed a line for each of several files
C17_Witness ==
    /\ pc = "returned"
    /\ Len(song_file_data) >= 3
    /\ Len(printed) = Len(song_file_data)
    /\ printed[3].number = 3

\* whether every record of db is under the key that is its path, a path
\* relative to a directory, and no two records have one path
WellKeyed(db) ==
    /\ \A i \in 1..Len(db.hashes) :
          /\ db.hashes[i].k = db.hashes[i].v.path
          /\ ~IsAbsolute(db.hashes[i].v.path)
          /\ PathFromStr(db.hashes[i].v.path) = db.hashes[i].v.path
    /\ \A i, j \in 1..Len(db.hashes) :
          db.hashes[i].v.path = db.hashes[j].v.path => i = j

\* C18: the Database a scan made empty or read with read_database, and
\* the one it has after database.update, are so keyed
C18_KeyIsRecordPath ==
    pc # "idle" => (WellKeyed(loaded) /\ WellKeyed(database))

\* a scan has read a database of records and updated it with another file
C18_Witness ==
    /\ outcome = "updated"
    /\ loaded.hashes # <<>>
    /\ Len(database.hashes) > Len(loaded.hashes)
    /\ preFile.exists

\* the path field of a line of the database file, as written
LinePath(line) == Head(Split(line, TAB))

\* C19: the text output writes is the base directory on a first line, then
\* the line of each record, one each, the paths ascending; the records
\* inserted in any other order give the same text
C19_OutputSortedByPath ==
    call.op = "output" =>
        LET lines == ReadLines(dbfile.text)
            items == call.db.hashes
        IN  /\ dbfile.exists
            /\ Len(lines) = 1 + Len(items)
            /\ Head(lines) = call.db.base_directory \o <<NL>>
            /\ \A i \in 1..Len(items) :
                  Cardinality({j \in 2..Len(lines) : lines[j] = RecordLine(items[i].v)}) = 1
            /\ \A j \in 2..(Len(lines) - 1) :
                  PathLess(LinePath(lines[j]), LinePath(lines[j + 1]))
            /\ \A o \in Orders(SeqToSet(items)) :
                  OutputText(Database(call.db.base_directory, o)) = dbfile.text

\* output of a database whose two records were inserted with the greater
\* path first and the greater digest second
C19_Witness ==
    /\ call.op = "output"
    /\ Len(call.db.hashes) = 2
    /\ PathLess(call.db.hashes[2].k, call.db.hashes[1].k)
    /\ StrLess(call.db.hashes[1].v.sha256, call.db.hashes[2].v.sha256)
    /\ dbfile.exists

\* the records a database file holds, read off its lines as output wrote
\* them: the three fields between the tabs, nothing stripped
RecordsWritten(file) ==
    LET lines == ReadLines(file.text)
    IN  {LET fields == Split(SubSeq(lines[j], 1, Len(lines[j]) - 1), TAB)
         IN  SongHash(fields[1], fields[2], StrToInt(fields[3])) :
             j \in 2..Len(lines)}

\* C20: whenever the database file is written over, each record it held is
\* still in it, or its path has a record with a later modification time
C20_DatabaseOnlyGrows ==
    [][(dbfile.exists /\ dbfile' # dbfile) =>
          \A r \in RecordsWritten(dbfile) :
              \E s \in RecordsWritten(dbfile') :
                  /\ s.path = r.path
                  /\ s = r \/ s.timestamp_ns > r.timestamp_ns]_vars

====
